---- MODULE Spec2Model ----
(***************************************************************************)
(* Model of the realtime hub of ebiten-fullstack-template:                 *)
(*   internal/server/server.go   connection handshake, id assignment       *)
(*   internal/server/hub.go      GameState store and Hub.Run event loop    *)
(*   internal/server/client.go   per-session ReadPump / WritePump          *)
(*   internal/client/game.go     the remote peer's local players view      *)
(*                                                                         *)
(* A session (the *Client pointer) is a connection number in Conns.  Its   *)
(* ID field is what nextPlayerID returned, so two sessions are always two  *)
(* distinct pointers but need not carry distinct ids.                      *)
(*                                                                         *)
(* Hub.Run is a single goroutine that handles one event to the end before  *)
(* it selects the next.  h.clients and the sending side of the queues are  *)
(* its own; the store is shared with the inbound loops under GameState.mu  *)
(* and the receiving side of a queue with its WritePump.  The stop,        *)
(* unregister and broadcast cases only remove entities, so a pump step     *)
(* that falls inside them is ordered as if it fell before or after, and    *)
(* each of them is one action.  The register case stores an entity and     *)
(* reads the store back later, so it is two actions, between which the     *)
(* pumps run: HubRegister up to the Welcome, HubRegisterState from the     *)
(* snapshot on.  The pumps and the handshake are split at their lock       *)
(* acquisitions and channel operations, a send on the unbuffered register, *)
(* unregister or broadcast channel being the hub action that receives it.  *)
(*                                                                         *)
(* The client transport (internal/client/network.go: connectLoop,          *)
(* readLoop, Close) and the protocol codec (internal/protocol/messages.go  *)
(* over encoding/json) are modelled next to the hub, each on its own       *)
(* variables; an action of one part leaves the variables of the others     *)
(* unchanged.                                                              *)
(*                                                                         *)
(* Specifications:                                                         *)
(*   Spec        handshakes, hub and pumps from NewServer                  *)
(*   FairSpec    hub and pumps from InitRegistering, fair scheduling       *)
(*   ServedSpec  hub and pumps from InitServed, fair scheduling            *)
(*   OrderSpec   the same, broadcasts and snapshots numbered               *)
(*   NetSpec     the client's connectLoop and Close                        *)
(*   InboxSpec   readLoop on an open connection, and ReceiveMessages       *)
(*   CodecSpec   Marshal and Unmarshal over bounded messages               *)
(***************************************************************************)
EXTENDS Integers, Sequences, FiniteSets

\* ----- bounds of the model -----

\* concurrent connection handshakes (one potential session each)
NumConns == 2
\* capacity of a session's outbound queue (256 in the source, scaled down)
sendBufferSize == 3
\* size of the colour palette (8 in the source, scaled down)
NumColors == 1
\* frames read over all sessions
MaxFrames == 1
\* coordinates a Position frame may carry: 1..MaxCoord
MaxCoord == 1

\* websocket.Dial calls of one Network
MaxDials == 9
\* calls of Network.Close
MaxCloses == 2
\* capacity of Network.messages (256 in the source, scaled down)
messagesCap == 2
\* frames conn.Read returns to the readLoops of one Network
MaxArrivals == 4
\* length of the strings a payload carries
MaxStr == 1
\* length of the player list of a State
MaxPlayers == 2
\* whole numbers the coordinates of a payload are drawn from
Nums == {0 - 1, 0, 10}
\* colour components a payload is drawn from
Uint8s == {0, 255}

Conns == 1..NumConns

VARIABLES
    playerCounter,  \* server.go: package-level counter
    hsPc,           \* handleWebSocket: position of each handshake
    hsReg,          \* handleWebSocket: counter value held in a register
    ID,             \* Client.ID of each session (NoID before NewClient)
    clients,        \* Hub.clients: the live set
    Players,        \* GameState.Players: id -> PlayerState
    send,           \* Client.send: buffered content of each outbound queue
    sendCloses,     \* number of close(client.send) executed per session
    numbering,      \* whether the behaviour numbers the messages Hub.Run
                    \* broadcasts (fixed by the initial state)
    broadcasts,     \* number of messages Hub.Run has broadcast so far
    sendSeq,        \* for each queued message, its number among the messages
                    \* broadcast (0 for a message sent to one session only)
    hubState,       \* "running" at the select of Hub.Run, "register" inside
                    \* the register case, "stopped" after the return
    reg,            \* register case: client, c, startX, startY of the event
    stopClosed,     \* Hub.stop has been closed by Hub.Stop
    rpPc,           \* ReadPump: position of each inbound loop
    pos,            \* ReadPump: the decoded PositionData being processed
    stateMsg,       \* ReadPump: the stateMsg built and not yet handed over
    wpPc,           \* WritePump: position of each outbound loop
    connCloses,     \* number of conn.Close executed per session
    gplayers,       \* Game.players of the peer of each session
    leaveApplied,   \* ids whose Leave the peer of each session has applied
    written,        \* numbers of the broadcast messages each WritePump wrote
    frames,         \* frames read so far by the inbound loops
    lastFrame,      \* the frame an inbound loop read last
    lastEvent,      \* the event Hub.Run processed last: its kind, the session it
                    \* came from, whether that session was live, whom it evicted
    liveAtPosition, \* whether a session was live when its ReadPump applied pos
    snapshots,      \* number of snapshots buildStateMessage has taken (numbered runs)
    snapOf,         \* the number of the snapshot that stateMsg holds (0: none)
    lastState,      \* the number of the State enqueued last to each session
    nPc,            \* Network.connectLoop: position of the loop
    delay,          \* connectLoop: the local delay, in seconds
    stopReconnect,  \* Network.stopReconnect
    cancel,         \* Network.cancel: "nil", or "set" to the cancel function of
                    \* the context connectLoop made last
    ctxCancelled,   \* whether that context has been cancelled
    conn,           \* Network.conn: "nil", or "set" to the connection dialled last
    connected,      \* Network.connected
    sock,           \* the connection dialled last: "none", "open" or "closed"
    dials,          \* number of websocket.Dial calls started
    fails,          \* failed dials since the last successful one
    lastSleep,      \* the delay time.Sleep was last called with (0: not yet)
    readExit,       \* readLoop has returned and connectLoop has not slept since
    closeCalls,     \* number of Network.Close calls that have returned
    messages,       \* Network.messages: the envelopes in the channel, oldest first
    playerID,       \* Network.playerID
    playerColor,    \* Network.playerColor
    arrivals,       \* number of frames conn.Read has returned to readLoop
    lastRead,       \* what readLoop did with the frame it read last
    accepted,       \* every envelope readLoop has put into Network.messages
    rmPc,           \* Network.ReceiveMessages: "idle", or "drain" inside its loop
    msgs,           \* ReceiveMessages: the local slice msgs
    delivered,      \* every envelope ReceiveMessages has returned, call after call
    codecPc,        \* a message on its way through Marshal and Unmarshal
    codecIn,        \* its kind and payload
    codecBytes,     \* the bytes Marshal returned
    codecEnv,       \* the Envelope Unmarshal returned
    codecOut        \* the payload json.Unmarshal made of the Envelope's Data

vars == <<playerCounter, hsPc, hsReg, ID, clients, Players, send, sendCloses,
          numbering, broadcasts, sendSeq, written,
          hubState, reg, stopClosed, rpPc, pos, stateMsg, wpPc, connCloses,
          gplayers, leaveApplied, frames, lastFrame, lastEvent, liveAtPosition,
          snapshots, snapOf, lastState,
          nPc, delay, stopReconnect, cancel, ctxCancelled, conn, connected, sock,
          dials, fails, lastSleep, readExit, closeCalls,
          messages, playerID, playerColor, arrivals, lastRead, accepted, rmPc, msgs,
          delivered,
          codecPc, codecIn, codecBytes, codecEnv, codecOut>>

hsVars == <<playerCounter, hsPc, hsReg, ID>>
hubVars == <<clients, Players, send, sendCloses, broadcasts, sendSeq, hubState, reg,
             lastEvent>>
rpVars == <<rpPc, pos, stateMsg, frames, lastFrame, liveAtPosition>>
wpVars == <<wpPc, gplayers, leaveApplied, written>>
snapVars == <<snapshots, snapOf, lastState>>
srvVars == <<hsVars, hubVars, stopClosed, rpVars, wpVars, connCloses, numbering,
             snapVars>>
codecVars == <<codecPc, codecIn, codecBytes, codecEnv, codecOut>>
loopVars == <<nPc, delay, stopReconnect, cancel, ctxCancelled, conn, connected, sock,
              dials, fails, lastSleep, readExit, closeCalls>>
inboxVars == <<messages, arrivals, lastRead, accepted, rmPc, msgs, delivered>>
netVars == <<loopVars, playerID, playerColor, inboxVars>>

\* ----- protocol (internal/protocol/messages.go) -----

MsgWelcome == "welcome"
MsgJoin == "join"
MsgLeave == "leave"
MsgPosition == "position"
MsgState == "state"

\* the two-field envelope {type, data}
Marshal(msgType, data) == [type |-> msgType, data |-> data]

NoID == <<>>
NoMsg == [type |-> "", data |-> <<>>]
NoPos == <<>>

\* fmt.Sprintf("player-%d", n)
FormatID(n) == <<"player-", n>>

\* ----- GameState (hub.go) -----

playerColors == 1..NumColors

\* spawn region: startX in [100, 540], startY in [100, 380]
StartXs == {100}
StartYs == {100}

AddPlayer(gs, id, x, y, c) ==
    [i \in DOMAIN gs \cup {id} |->
        IF i = id THEN [X |-> x, Y |-> y, Color |-> c] ELSE gs[i]]

RemovePlayer(gs, id) == [i \in DOMAIN gs \ {id} |-> gs[i]]

UpdatePosition(gs, id, x, y) ==
    IF id \in DOMAIN gs THEN [gs EXCEPT ![id].X = x, ![id].Y = y] ELSE gs

Snapshot(gs) == [i \in DOMAIN gs |-> gs[i]]

PlayerInfo(id, ps) == [ID |-> id, X |-> ps.X, Y |-> ps.Y, Color |-> ps.Color]

\* the players list is built in map order; its order carries no meaning, so
\* it is the set of its PlayerInfo entries
buildStateMessage(gs) ==
    LET snap == Snapshot(gs)
    IN Marshal(MsgState, [players |-> {PlayerInfo(id, snap[id]) : id \in DOMAIN snap}])

EmptyState == [i \in {} |-> 0]

\* ----- Hub (hub.go) -----

\* the number a broadcast message carries: its place in the order in which
\* Hub.Run broadcast, or 0 in a behaviour that does not number
Number(n) == IF numbering THEN n ELSE 0

\* for client := range h.clients { select { case client.send <- msg: default: evict } }
\* Each session's outcome depends on its own queue only, so map order is immaterial.
broadcastBytes(h, msg) ==
    LET full == {c \in h.clients : Len(h.send[c]) >= sendBufferSize}
    IN [clients |-> h.clients \ full,
        send |-> [c \in Conns |->
                    IF c \in h.clients \ full THEN Append(h.send[c], msg)
                    ELSE h.send[c]],
        sendCloses |-> [c \in Conns |->
                    IF c \in full THEN h.sendCloses[c] + 1 ELSE h.sendCloses[c]],
        broadcasts |-> Number(h.broadcasts + 1),
        sendSeq |-> [c \in Conns |->
                    IF c \in h.clients \ full THEN Append(h.sendSeq[c], Number(h.broadcasts + 1))
                    ELSE h.sendSeq[c]],
        Players |-> [i \in DOMAIN h.Players \ {ID[c] : c \in full} |-> h.Players[i]]]

NoEvent == [kind |-> "none", client |-> 0, live |-> FALSE, evicted |-> {}]

NoFrame == [msgType |-> "", bytes |-> NoMsg]

NoReg == [client |-> 0, Color |-> 0, X |-> 0, Y |-> 0]

SetHub(h) ==
    /\ clients' = h.clients
    /\ send' = h.send
    /\ sendCloses' = h.sendCloses
    /\ broadcasts' = h.broadcasts
    /\ sendSeq' = h.sendSeq
    /\ Players' = h.Players

\* ----- encoding/json as Marshal and Unmarshal use it (messages.go) -----

\* A Go string is a sequence of bytes.  The strings drawn are made of a plain
\* character, the quotation mark, the character U+FFFD and a byte that is not
\* valid UTF-8.
FFFD == "U+FFFD"
BAD == "0xFF"
Alphabet == {"a", "\"", FFFD, BAD}

RECURSIVE SeqsUpTo(_, _)
SeqsUpTo(S, n) ==
    IF n = 0 THEN {<<>>}
    ELSE SeqsUpTo(S, n - 1) \cup {Append(s, x) : s \in SeqsUpTo(S, n - 1), x \in S}

\* a float64: a finite value (whole numbers here), or NaN
Finite(n) == [class |-> "finite", n |-> n]
NaN == [class |-> "NaN", n |-> 0]

\* the bytes of a JSON text, grouped as the scanner groups them: a punctuation
\* mark or null, a string literal (s: what stands between its quotation
\* marks), a number literal (s: its characters)
Tok(x) == [t |-> x, s |-> <<>>]
StrTok(cs) == [t |-> "string", s |-> cs]
NumTok(cs) == [t |-> "number", s |-> cs]

\* encoding/json writes a string: '"' and '\' are escaped, a byte that is not
\* valid UTF-8 is written as the escape of U+FFFD, anything else is copied
EscapeChar(ch) ==
    IF ch = "\"" THEN <<"\\", "\"">>
    ELSE IF ch = "\\" THEN <<"\\", "\\">>
    ELSE IF ch = BAD THEN <<"\\", "ufffd">>
    ELSE <<ch>>

RECURSIVE EncodeString(_)
EncodeString(s) ==
    IF s = <<>> THEN <<>> ELSE EscapeChar(Head(s)) \o EncodeString(Tail(s))

\* encoding/json reads a string literal: an escape stands for its character
RECURSIVE DecodeString(_)
DecodeString(e) ==
    IF e = <<>> THEN <<>>
    ELSE IF Head(e) = "\\" /\ Len(e) >= 2
    THEN <<IF e[2] = "ufffd" THEN FFFD ELSE e[2]>> \o DecodeString(SubSeq(e, 3, Len(e)))
    ELSE <<Head(e)>> \o DecodeString(Tail(e))

DigitChars == <<"0", "1", "2", "3", "4", "5", "6", "7", "8", "9">>

RECURSIVE FormatNat(_)
FormatNat(n) ==
    IF n < 10 THEN <<DigitChars[n + 1]>>
    ELSE FormatNat(n \div 10) \o <<DigitChars[(n % 10) + 1]>>

\* FormatInt that leaves out the sign
FormatIntUnsigned(i) == IF i < 0 THEN FormatNat(0 - i) ELSE FormatNat(i)

\* strconv formatting of a whole number
FormatInt(i) == IF i < 0 THEN <<"-">> \o FormatNat(0 - i) ELSE FormatNat(i)

RECURSIVE ParseNat(_)
ParseNat(s) ==
    IF s = <<>> THEN 0
    ELSE ParseNat(SubSeq(s, 1, Len(s) - 1)) * 10
         + (CHOOSE d \in 0..9 : DigitChars[d + 1] = s[Len(s)])

\* strconv parsing of a number literal
ParseInt(s) == IF s # <<>> /\ Head(s) = "-" THEN 0 - ParseNat(Tail(s)) ELSE ParseNat(s)

\* the result of json.Marshal: an error, or bytes
MarshalOK(b) == [err |-> FALSE, b |-> b]
MarshalError == [err |-> TRUE, b |-> <<>>]

jsonString(s) == MarshalOK(<<StrTok(EncodeString(s))>>)
jsonUint(n) == MarshalOK(<<NumTok(FormatNat(n))>>)
\* json: unsupported value for NaN and the infinities
jsonFloat(f) == IF f.class = "finite" THEN MarshalOK(<<NumTok(FormatInt(f.n))>>) ELSE MarshalError

RECURSIVE JoinTokens(_)
JoinTokens(parts) ==
    IF parts = <<>> THEN <<>>
    ELSE IF Len(parts) = 1 THEN parts[1]
    ELSE parts[1] \o <<Tok(",")>> \o JoinTokens(Tail(parts))

\* a struct: its fields in order, each under the name of its json tag
jsonObject(fields) ==
    IF \E i \in 1..Len(fields) : fields[i].val.err THEN MarshalError
    ELSE MarshalOK(<<Tok("{")>>
            \o JoinTokens([i \in 1..Len(fields) |->
                    <<StrTok(<<fields[i].key>>), Tok(":")>> \o fields[i].val.b])
            \o <<Tok("}")>>)

\* a slice
jsonArray(elems) ==
    IF \E i \in 1..Len(elems) : elems[i].err THEN MarshalError
    ELSE MarshalOK(<<Tok("[")>> \o JoinTokens([i \in 1..Len(elems) |-> elems[i].b])
                   \o <<Tok("]")>>)

Field(k, v) == [key |-> k, val |-> v]

jsonColor(c) ==
    jsonObject(<<Field("r", jsonUint(c.R)), Field("g", jsonUint(c.G)),
                 Field("b", jsonUint(c.B))>>)

jsonPlayerInfo(p) ==
    jsonObject(<<Field("id", jsonString(p.ID)), Field("x", jsonFloat(p.X)),
                 Field("y", jsonFloat(p.Y)), Field("color", jsonColor(p.Color))>>)

\* json.Marshal(data) for the payload structure of each kind
jsonMarshal(kind, data) ==
    CASE kind = MsgWelcome ->
            jsonObject(<<Field("id", jsonString(data.ID)),
                         Field("color", jsonColor(data.Color))>>)
      [] kind = MsgJoin -> jsonPlayerInfo(data)
      [] kind = MsgLeave -> jsonObject(<<Field("id", jsonString(data.ID))>>)
      [] kind = MsgPosition ->
            jsonObject(<<Field("x", jsonFloat(data.X)), Field("y", jsonFloat(data.Y))>>)
      [] kind = MsgState ->
            jsonObject(<<Field("players",
                jsonArray([i \in 1..Len(data.Players) |-> jsonPlayerInfo(data.Players[i])]))>>)

\* protocol.Marshal, down to the bytes
MarshalBytes(msgType, data) ==
    LET raw == jsonMarshal(msgType, data)
    IN IF raw.err THEN MarshalError
       ELSE jsonObject(<<Field("type", jsonString(<<msgType>>)), Field("data", raw)>>)

\* what the decoder makes of a JSON text: a value of kind k; an object keeps,
\* for each member, where its value stands in the text
JValue(k, s, m) == [k |-> k, s |-> s, m |-> m]
ParseOK(v, n) == [err |-> FALSE, v |-> v, n |-> n]
ParseError == [err |-> TRUE, v |-> JValue("", <<>>, <<>>), n |-> 0]

RECURSIVE ParseValue(_, _), ParseMembers(_, _, _), ParseElements(_, _, _)

\* the value that starts at token i; n is the place after it
ParseValue(t, i) ==
    IF i > Len(t) THEN ParseError
    ELSE IF t[i].t = "string" THEN ParseOK(JValue("string", DecodeString(t[i].s), <<>>), i + 1)
    ELSE IF t[i].t = "number" THEN ParseOK(JValue("number", t[i].s, <<>>), i + 1)
    ELSE IF t[i].t = "null" THEN ParseOK(JValue("null", <<>>, <<>>), i + 1)
    ELSE IF t[i].t = "{"
    THEN IF i + 1 <= Len(t) /\ t[i + 1].t = "}"
         THEN ParseOK(JValue("object", <<>>, <<>>), i + 2)
         ELSE ParseMembers(t, i + 1, <<>>)
    ELSE IF t[i].t = "["
    THEN IF i + 1 <= Len(t) /\ t[i + 1].t = "]"
         THEN ParseOK(JValue("array", <<>>, <<>>), i + 2)
         ELSE ParseElements(t, i + 1, <<>>)
    ELSE ParseError

ParseMembers(t, i, acc) ==
    IF i + 2 > Len(t) \/ t[i].t # "string" \/ t[i + 1].t # ":" THEN ParseError
    ELSE LET r == ParseValue(t, i + 2)
             m == Append(acc, [key |-> DecodeString(t[i].s), v |-> r.v,
                               from |-> i + 2, to |-> r.n - 1])
         IN IF r.err \/ r.n > Len(t) THEN ParseError
            ELSE IF t[r.n].t = "}" THEN ParseOK(JValue("object", <<>>, m), r.n + 1)
            ELSE IF t[r.n].t = "," THEN ParseMembers(t, r.n + 1, m)
            ELSE ParseError

ParseElements(t, i, acc) ==
    LET r == ParseValue(t, i)
        m == Append(acc, [key |-> <<>>, v |-> r.v, from |-> i, to |-> r.n - 1])
    IN IF r.err \/ r.n > Len(t) THEN ParseError
       ELSE IF t[r.n].t = "]" THEN ParseOK(JValue("array", <<>>, m), r.n + 1)
       ELSE IF t[r.n].t = "," THEN ParseElements(t, r.n + 1, m)
       ELSE ParseError

\* the whole text as one value
Parse(t) ==
    LET r == ParseValue(t, 1)
    IN IF r.err \/ r.n # Len(t) + 1 THEN ParseError ELSE r

\* the members of object o named key (json matches the tag)
Members(o, key) == {i \in 1..Len(o.m) : o.m[i].key = <<key>>}
\* the last one wins
Member(o, key) == o.m[CHOOSE i \in Members(o, key) : \A j \in Members(o, key) : j <= i]

\* fields of the target structure: absent or null leaves the zero value
StringField(o, key) ==
    IF Members(o, key) = {} \/ Member(o, key).v.k # "string" THEN <<>>
    ELSE Member(o, key).v.s
UintField(o, key) ==
    IF Members(o, key) = {} \/ Member(o, key).v.k # "number" THEN 0
    ELSE ParseNat(Member(o, key).v.s)
FloatField(o, key) ==
    IF Members(o, key) = {} \/ Member(o, key).v.k # "number" THEN Finite(0)
    ELSE Finite(ParseInt(Member(o, key).v.s))
ObjectField(o, key) ==
    IF Members(o, key) = {} \/ Member(o, key).v.k # "object" THEN JValue("object", <<>>, <<>>)
    ELSE Member(o, key).v
ArrayField(o, key) ==
    IF Members(o, key) = {} \/ Member(o, key).v.k # "array" THEN <<>>
    ELSE Member(o, key).v.m

ColorOf(o) == [R |-> UintField(o, "r"), G |-> UintField(o, "g"), B |-> UintField(o, "b")]

PlayerInfoOf(o) ==
    [ID |-> StringField(o, "id"), X |-> FloatField(o, "x"), Y |-> FloatField(o, "y"),
     Color |-> ColorOf(ObjectField(o, "color"))]

\* json.Unmarshal(env.Data, &payload) for the payload structure of each kind
jsonUnmarshal(kind, raw) ==
    LET r == Parse(raw)
        o == r.v
    IN IF r.err \/ o.k # "object" THEN [err |-> TRUE, v |-> <<>>]
       ELSE [err |-> FALSE,
             v |-> CASE kind = MsgWelcome ->
                        [ID |-> StringField(o, "id"),
                         Color |-> ColorOf(ObjectField(o, "color"))]
                     [] kind = MsgJoin -> PlayerInfoOf(o)
                     [] kind = MsgLeave -> [ID |-> StringField(o, "id")]
                     [] kind = MsgPosition ->
                        [X |-> FloatField(o, "x"), Y |-> FloatField(o, "y")]
                     [] kind = MsgState ->
                        [Players |-> [i \in 1..Len(ArrayField(o, "players")) |->
                                        PlayerInfoOf(ArrayField(o, "players")[i].v)]]
                     [] OTHER -> <<>>]

NoEnvelope == [Type |-> <<>>, Data |-> <<>>]

\* protocol.Unmarshal, from the bytes: Type is the string under "type", Data
\* the bytes of the value under "data" as they stand (json.RawMessage)
UnmarshalBytes(b) ==
    LET r == Parse(b)
        o == r.v
    IN IF r.err \/ o.k # "object" THEN [err |-> TRUE, env |-> NoEnvelope]
       ELSE [err |-> FALSE,
             env |-> [Type |-> StringField(o, "type"),
                      Data |-> IF Members(o, "data") = {} THEN <<>>
                               ELSE SubSeq(b, Member(o, "data").from, Member(o, "data").to)]]

\* ----- a message through Marshal and Unmarshal -----

Strings == SeqsUpTo(Alphabet, MaxStr)
Floats == {Finite(n) : n \in Nums} \cup {NaN}
Colors == [R : Uint8s, G : Uint8s, B : Uint8s]
PlayerInfos == [ID : Strings, X : Floats, Y : Floats, Color : Colors]
\* the entries of the State lists drawn
ListedPlayers == {p \in PlayerInfos : p.Y = p.X /\ p.Color.R = p.Color.G /\ p.Color.G = p.Color.B}

\* every kind with every payload of its structure
Messages ==
    {[kind |-> MsgWelcome, payload |-> p] : p \in [ID : Strings, Color : Colors]}
    \cup {[kind |-> MsgJoin, payload |-> p] : p \in PlayerInfos}
    \cup {[kind |-> MsgLeave, payload |-> p] : p \in [ID : Strings]}
    \cup {[kind |-> MsgPosition, payload |-> p] : p \in [X : Floats, Y : Floats]}
    \cup {[kind |-> MsgState, payload |-> [Players |-> l]] : l \in SeqsUpTo(ListedPlayers, MaxPlayers)}

NoMessage == [kind |-> "", payload |-> <<>>]

\* no message is being coded
codecIdle ==
    /\ codecPc = "idle"
    /\ codecIn = NoMessage
    /\ codecBytes = <<>>
    /\ codecEnv = NoEnvelope
    /\ codecOut = [err |-> FALSE, v |-> <<>>]

\* ----- Network (internal/client/network.go) -----

\* seconds
reconnectInitial == 1
reconnectMax == 30

\* connectNetwork: the zero Network with connectLoop about to start
connectNetwork ==
    /\ nPc = "check"
    /\ delay = reconnectInitial
    /\ stopReconnect = FALSE
    /\ cancel = "nil"
    /\ ctxCancelled = FALSE
    /\ conn = "nil"
    /\ connected = FALSE
    /\ sock = "none"
    /\ dials = 0
    /\ fails = 0
    /\ lastSleep = 0
    /\ readExit = FALSE
    /\ closeCalls = 0
    /\ messages = <<>>
    /\ playerID = NoID
    /\ playerColor = 0
    /\ arrivals = 0
    /\ lastRead = [seq |-> 0, outcome |-> "none"]
    /\ accepted = <<>>
    /\ rmPc = "idle"
    /\ msgs = <<>>
    /\ delivered = <<>>

\* ----- the server and the transport as constructed -----

\* NewServer, NewHub and NewGameState
NewServer ==
    /\ playerCounter = 0
    /\ hsPc = [c \in Conns |-> "accept"]
    /\ hsReg = [c \in Conns |-> 0]
    /\ ID = [c \in Conns |-> NoID]
    /\ clients = {}
    /\ Players = EmptyState
    /\ send = [c \in Conns |-> <<>>]
    /\ sendCloses = [c \in Conns |-> 0]
    /\ numbering = FALSE
    /\ broadcasts = 0
    /\ sendSeq = [c \in Conns |-> <<>>]
    /\ written = [c \in Conns |-> <<>>]
    /\ hubState = "running"
    /\ reg = NoReg
    /\ stopClosed = FALSE
    /\ rpPc = [c \in Conns |-> "idle"]
    /\ pos = [c \in Conns |-> NoPos]
    /\ stateMsg = [c \in Conns |-> NoMsg]
    /\ wpPc = [c \in Conns |-> "idle"]
    /\ connCloses = [c \in Conns |-> 0]
    /\ gplayers = [c \in Conns |-> EmptyState]
    /\ leaveApplied = [c \in Conns |-> {}]
    /\ frames = 0
    /\ lastFrame = NoFrame
    /\ lastEvent = NoEvent
    /\ liveAtPosition = [c \in Conns |-> FALSE]
    /\ snapshots = 0
    /\ snapOf = [c \in Conns |-> 0]
    /\ lastState = [c \in Conns |-> 0]

Init == NewServer /\ connectNetwork /\ codecIdle

\* ----- Server.handleWebSocket (server.go) -----

\* websocket.Accept: an upgrade error returns before any id is taken
Accept(c) ==
    /\ hsPc[c] = "accept"
    /\ \E ok \in BOOLEAN : hsPc' = [hsPc EXCEPT ![c] = IF ok THEN "load" ELSE "failed"]
    /\ UNCHANGED <<playerCounter, hsReg, ID, hubVars, stopClosed, rpVars, wpVars, connCloses>>
    /\ UNCHANGED <<numbering, snapVars, netVars, codecVars>>

\* playerCounter++ is an unsynchronised read-modify-write: the read ...
CounterLoad(c) ==
    /\ hsPc[c] = "load"
    /\ hsReg' = [hsReg EXCEPT ![c] = playerCounter]
    /\ hsPc' = [hsPc EXCEPT ![c] = "store"]
    /\ UNCHANGED <<playerCounter, ID, hubVars, stopClosed, rpVars, wpVars, connCloses>>
    /\ UNCHANGED <<numbering, snapVars, netVars, codecVars>>

\* ... and the write of the incremented value
CounterStore(c) ==
    /\ hsPc[c] = "store"
    /\ playerCounter' = hsReg[c] + 1
    /\ hsPc' = [hsPc EXCEPT ![c] = "format"]
    /\ UNCHANGED <<hsReg, ID, hubVars, stopClosed, rpVars, wpVars, connCloses>>
    /\ UNCHANGED <<numbering, snapVars, netVars, codecVars>>

\* return fmt.Sprintf("player-%d", playerCounter); NewClient(s.Hub, conn, id).
\* The racing read yields the counter as it is in memory now, or the value the
\* increment left in the register.
NewClient(c) ==
    /\ hsPc[c] = "format"
    /\ \E n \in {playerCounter, hsReg[c] + 1} : ID' = [ID EXCEPT ![c] = FormatID(n)]
    /\ hsPc' = [hsPc EXCEPT ![c] = "register"]
    /\ hsReg' = [hsReg EXCEPT ![c] = 0]
    /\ UNCHANGED <<playerCounter, hubVars, stopClosed, rpVars, wpVars, connCloses>>
    /\ UNCHANGED <<numbering, snapVars, netVars, codecVars>>

\* go client.WritePump(); go client.ReadPump()
StartPumps(c) ==
    /\ hsPc[c] = "spawn"
    /\ hsPc' = [hsPc EXCEPT ![c] = "done"]
    /\ rpPc' = [rpPc EXCEPT ![c] = "read"]
    /\ wpPc' = [wpPc EXCEPT ![c] = "run"]
    /\ UNCHANGED <<playerCounter, hsReg, ID, hubVars, stopClosed, pos, stateMsg, frames, lastFrame,
                   liveAtPosition, gplayers, leaveApplied, written, connCloses>>
    /\ UNCHANGED <<numbering, snapVars, netVars, codecVars>>

\* ----- Hub.Run (hub.go) -----

\* client.send <- msg: a blocking send, possible only while the queue has room
directSend(q, msg) == Append(q, msg)

\* case client := <-h.register, up to the Welcome: the session enters the live
\* set, its entity is stored with a random colour and spawn point, and the
\* Welcome goes to its own queue
HubRegister(c) ==
    /\ hubState = "running"
    /\ hsPc[c] = "register"
    /\ Len(send[c]) < sendBufferSize
    /\ \E col \in playerColors, startX \in StartXs, startY \in StartYs :
         /\ clients' = clients \cup {c}
         /\ Players' = AddPlayer(Players, ID[c], startX, startY, col)
         /\ send' = [send EXCEPT ![c] =
                directSend(@, Marshal(MsgWelcome, [ID |-> ID[c], Color |-> col]))]
         /\ reg' = [client |-> c, Color |-> col, X |-> startX, Y |-> startY]
    /\ sendSeq' = [sendSeq EXCEPT ![c] = Append(@, 0)]
    /\ hubState' = "register"
    /\ hsPc' = [hsPc EXCEPT ![c] = "spawn"]
    /\ UNCHANGED <<playerCounter, hsReg, ID, sendCloses, broadcasts, lastEvent, stopClosed, rpVars,
                   wpVars, connCloses>>
    /\ UNCHANGED <<numbering, snapVars, netVars, codecVars>>

\* HubRegisterState with the Join broadcast issued before the State is sent
HubRegisterStateJoinFirst ==
    /\ hubState = "register"
    /\ Len(send[reg.client]) < sendBufferSize
    /\ LET c == reg.client
           join == Marshal(MsgJoin, [ID |-> ID[c], X |-> reg.X, Y |-> reg.Y,
                                     Color |-> reg.Color])
           h1 == broadcastBytes([clients |-> clients, send |-> send,
                                 sendCloses |-> sendCloses, broadcasts |-> broadcasts,
                                 sendSeq |-> sendSeq, Players |-> Players], join)
       IN SetHub([h1 EXCEPT !.send[c] = directSend(@, buildStateMessage(h1.Players)),
                            !.sendSeq[c] = Append(@, 0)])
    /\ lastEvent' = [kind |-> "register", client |-> reg.client, live |-> FALSE,
                     evicted |-> {d \in clients : d \notin clients'}]
    /\ hubState' = "running"
    /\ reg' = NoReg
    /\ UNCHANGED <<hsVars, stopClosed, rpVars, wpVars, connCloses>>
    /\ snapshots' = Number(snapshots + 1)
    /\ lastState' = [lastState EXCEPT ![reg.client] = Number(snapshots + 1)]
    /\ UNCHANGED snapOf
    /\ UNCHANGED <<numbering, netVars, codecVars>>

\* HubRegisterState with a State that leaves out the entity just stored
HubRegisterStateOmitsSelf ==
    /\ hubState = "register"
    /\ Len(send[reg.client]) < sendBufferSize
    /\ LET c == reg.client
           h1 == [clients |-> clients,
                  send |-> [send EXCEPT ![c] =
                        directSend(@, buildStateMessage(RemovePlayer(Players, ID[c])))],
                  sendCloses |-> sendCloses,
                  broadcasts |-> broadcasts,
                  sendSeq |-> [sendSeq EXCEPT ![c] = Append(@, 0)],
                  Players |-> Players]
           join == Marshal(MsgJoin, [ID |-> ID[c], X |-> reg.X, Y |-> reg.Y,
                                     Color |-> reg.Color])
       IN SetHub(broadcastBytes(h1, join))
    /\ lastEvent' = [kind |-> "register", client |-> reg.client, live |-> FALSE,
                     evicted |-> {d \in clients : d \notin clients'}]
    /\ hubState' = "running"
    /\ reg' = NoReg
    /\ UNCHANGED <<hsVars, stopClosed, rpVars, wpVars, connCloses>>
    /\ snapshots' = Number(snapshots + 1)
    /\ lastState' = [lastState EXCEPT ![reg.client] = Number(snapshots + 1)]
    /\ UNCHANGED snapOf
    /\ UNCHANGED <<numbering, netVars, codecVars>>

\* HubRegisterState that hands the Join to every live session with a blocking
\* send instead of broadcastBytes
HubRegisterStateDirectJoin ==
    /\ hubState = "register"
    /\ Len(send[reg.client]) + 1 < sendBufferSize
    /\ \A d \in clients \ {reg.client} : Len(send[d]) < sendBufferSize
    /\ LET c == reg.client
           join == Marshal(MsgJoin, [ID |-> ID[c], X |-> reg.X, Y |-> reg.Y,
                                     Color |-> reg.Color])
       IN send' = [d \in Conns |->
                     IF d = c
                     THEN directSend(directSend(send[c], buildStateMessage(Players)), join)
                     ELSE IF d \in clients THEN directSend(send[d], join) ELSE send[d]]
    /\ sendSeq' = [d \in Conns |->
                     IF d = reg.client THEN sendSeq[d] \o <<0, 0>>
                     ELSE IF d \in clients THEN Append(sendSeq[d], 0) ELSE sendSeq[d]]
    /\ lastEvent' = [kind |-> "register", client |-> reg.client, live |-> FALSE,
                     evicted |-> {}]
    /\ hubState' = "running"
    /\ reg' = NoReg
    /\ UNCHANGED <<hsVars, clients, Players, sendCloses, broadcasts, stopClosed, rpVars,
                   wpVars, connCloses>>
    /\ snapshots' = Number(snapshots + 1)
    /\ lastState' = [lastState EXCEPT ![reg.client] = Number(snapshots + 1)]
    /\ UNCHANGED snapOf
    /\ UNCHANGED <<numbering, netVars, codecVars>>

\* the rest of the register case: the State built from the store as it is now
\* goes to the new session's queue, then the Join is broadcast
HubRegisterState ==
    /\ hubState = "register"
    /\ Len(send[reg.client]) < sendBufferSize
    /\ LET c == reg.client
           h1 == [clients |-> clients,
                  send |-> [send EXCEPT ![c] = directSend(@, buildStateMessage(Players))],
                  sendCloses |-> sendCloses,
                  broadcasts |-> broadcasts,
                  sendSeq |-> [sendSeq EXCEPT ![c] = Append(@, 0)],
                  Players |-> Players]
           join == Marshal(MsgJoin, [ID |-> ID[c], X |-> reg.X, Y |-> reg.Y,
                                     Color |-> reg.Color])
       IN SetHub(broadcastBytes(h1, join))
    /\ lastEvent' = [kind |-> "register", client |-> reg.client, live |-> FALSE,
                     evicted |-> {d \in clients : d \notin clients'}]
    /\ hubState' = "running"
    /\ reg' = NoReg
    /\ UNCHANGED <<hsVars, stopClosed, rpVars, wpVars, connCloses>>
    /\ snapshots' = Number(snapshots + 1)
    /\ lastState' = [lastState EXCEPT ![reg.client] = Number(snapshots + 1)]
    /\ UNCHANGED snapOf
    /\ UNCHANGED <<numbering, netVars, codecVars>>

\* HubUnregister without the "still in h.clients" test
HubUnregisterUnguarded(c) ==
    /\ hubState = "running"
    /\ rpPc[c] = "unregister"
    /\ LET h1 == [clients |-> clients \ {c},
                  send |-> send,
                  sendCloses |-> [sendCloses EXCEPT ![c] = @ + 1],
                  broadcasts |-> broadcasts,
                  sendSeq |-> sendSeq,
                  Players |-> RemovePlayer(Players, ID[c])]
       IN SetHub(broadcastBytes(h1, Marshal(MsgLeave, [ID |-> ID[c]])))
    /\ lastEvent' = [kind |-> "unregister", client |-> c, live |-> c \in clients,
                     evicted |-> {d \in clients \ {c} : d \notin clients'}]
    /\ rpPc' = [rpPc EXCEPT ![c] = "close"]
    /\ UNCHANGED <<hsVars, hubState, reg, stopClosed, pos, stateMsg, frames, lastFrame,
                   liveAtPosition, wpVars, connCloses>>
    /\ UNCHANGED <<numbering, snapVars, netVars, codecVars>>

\* HubUnregister that follows the Leave with a broadcast of the new State
HubUnregisterWithState(c) ==
    /\ hubState = "running"
    /\ rpPc[c] = "unregister"
    /\ IF c \in clients
       THEN LET h1 == [clients |-> clients \ {c},
                       send |-> send,
                       sendCloses |-> [sendCloses EXCEPT ![c] = @ + 1],
                       broadcasts |-> broadcasts,
                       sendSeq |-> sendSeq,
                       Players |-> RemovePlayer(Players, ID[c])]
                h2 == broadcastBytes(h1, Marshal(MsgLeave, [ID |-> ID[c]]))
            IN SetHub(broadcastBytes(h2, buildStateMessage(h2.Players)))
       ELSE UNCHANGED <<clients, send, sendCloses, broadcasts, sendSeq, Players>>
    /\ lastEvent' = [kind |-> "unregister", client |-> c, live |-> c \in clients,
                     evicted |-> {d \in clients \ {c} : d \notin clients'}]
    /\ rpPc' = [rpPc EXCEPT ![c] = "close"]
    /\ UNCHANGED <<hsVars, hubState, reg, stopClosed, pos, stateMsg, frames, lastFrame,
                   liveAtPosition, wpVars, connCloses>>
    /\ UNCHANGED <<numbering, snapVars, netVars, codecVars>>

\* case client := <-h.unregister
HubUnregister(c) ==
    /\ hubState = "running"
    /\ rpPc[c] = "unregister"
    /\ IF c \in clients
       THEN LET h1 == [clients |-> clients \ {c},
                       send |-> send,
                       sendCloses |-> [sendCloses EXCEPT ![c] = @ + 1],
                       broadcasts |-> broadcasts,
                       sendSeq |-> sendSeq,
                       Players |-> RemovePlayer(Players, ID[c])]
            IN SetHub(broadcastBytes(h1, Marshal(MsgLeave, [ID |-> ID[c]])))
       ELSE UNCHANGED <<clients, send, sendCloses, broadcasts, sendSeq, Players>>
    /\ lastEvent' = [kind |-> "unregister", client |-> c, live |-> c \in clients,
                     evicted |-> {d \in clients \ {c} : d \notin clients'}]
    /\ rpPc' = [rpPc EXCEPT ![c] = "close"]
    /\ UNCHANGED <<hsVars, hubState, reg, stopClosed, pos, stateMsg, frames, lastFrame,
                   liveAtPosition, wpVars, connCloses>>
    /\ UNCHANGED <<numbering, snapVars, netVars, codecVars>>

\* HubBroadcast that skips a full queue instead of evicting its session
HubBroadcastDropOnFull(c) ==
    /\ hubState = "running"
    /\ rpPc[c] = "broadcast"
    /\ LET message == stateMsg[c]
           full == {d \in clients : Len(send[d]) >= sendBufferSize}
       IN /\ send' = [d \in Conns |->
                        IF d \in clients \ full THEN Append(send[d], message) ELSE send[d]]
          /\ sendSeq' = [d \in Conns |->
                        IF d \in clients \ full THEN Append(sendSeq[d], Number(broadcasts + 1))
                        ELSE sendSeq[d]]
    /\ broadcasts' = Number(broadcasts + 1)
    /\ UNCHANGED <<sendCloses, clients, Players>>
    /\ lastEvent' = [kind |-> "broadcast", client |-> c, live |-> c \in clients,
                     evicted |-> {}]
    /\ rpPc' = [rpPc EXCEPT ![c] = "read"]
    /\ pos' = [pos EXCEPT ![c] = NoPos]
    /\ stateMsg' = [stateMsg EXCEPT ![c] = NoMsg]
    /\ liveAtPosition' = [liveAtPosition EXCEPT ![c] = FALSE]
    /\ UNCHANGED <<hsVars, hubState, reg, stopClosed, frames, lastFrame, wpVars, connCloses>>
    /\ lastState' = [d \in Conns |->
            IF d \in clients /\ Len(send[d]) < sendBufferSize THEN snapOf[c]
            ELSE lastState[d]]
    /\ snapOf' = [snapOf EXCEPT ![c] = 0]
    /\ UNCHANGED snapshots
    /\ UNCHANGED <<numbering, netVars, codecVars>>

\* HubBroadcast that closes a full queue but keeps its session in the live set
HubBroadcastCloseOnly(c) ==
    /\ hubState = "running"
    /\ rpPc[c] = "broadcast"
    /\ LET message == stateMsg[c]
           full == {d \in clients : Len(send[d]) >= sendBufferSize}
       IN /\ send' = [d \in Conns |->
                        IF d \in clients \ full THEN Append(send[d], message) ELSE send[d]]
          /\ sendSeq' = [d \in Conns |->
                        IF d \in clients \ full THEN Append(sendSeq[d], Number(broadcasts + 1))
                        ELSE sendSeq[d]]
          /\ broadcasts' = Number(broadcasts + 1)
          /\ sendCloses' = [d \in Conns |->
                        IF d \in full THEN sendCloses[d] + 1 ELSE sendCloses[d]]
          /\ Players' = [i \in DOMAIN Players \ {ID[d] : d \in full} |-> Players[i]]
    /\ UNCHANGED clients
    /\ lastEvent' = [kind |-> "broadcast", client |-> c, live |-> c \in clients,
                     evicted |-> {}]
    /\ rpPc' = [rpPc EXCEPT ![c] = "read"]
    /\ pos' = [pos EXCEPT ![c] = NoPos]
    /\ stateMsg' = [stateMsg EXCEPT ![c] = NoMsg]
    /\ liveAtPosition' = [liveAtPosition EXCEPT ![c] = FALSE]
    /\ UNCHANGED <<hsVars, hubState, reg, stopClosed, frames, lastFrame, wpVars, connCloses>>
    /\ lastState' = [d \in Conns |->
            IF d \in clients /\ Len(send[d]) < sendBufferSize THEN snapOf[c]
            ELSE lastState[d]]
    /\ snapOf' = [snapOf EXCEPT ![c] = 0]
    /\ UNCHANGED snapshots
    /\ UNCHANGED <<numbering, netVars, codecVars>>

\* case message := <-h.broadcast, the message being the one session c hands over
HubBroadcast(c) ==
    /\ hubState = "running"
    /\ rpPc[c] = "broadcast"
    /\ LET message == stateMsg[c]
           full == {d \in clients : Len(send[d]) >= sendBufferSize}
       IN /\ send' = [d \in Conns |->
                        IF d \in clients \ full THEN Append(send[d], message) ELSE send[d]]
          /\ sendSeq' = [d \in Conns |->
                        IF d \in clients \ full THEN Append(sendSeq[d], Number(broadcasts + 1))
                        ELSE sendSeq[d]]
          /\ broadcasts' = Number(broadcasts + 1)
          /\ sendCloses' = [d \in Conns |->
                        IF d \in full THEN sendCloses[d] + 1 ELSE sendCloses[d]]
          /\ clients' = clients \ full
          /\ Players' = [i \in DOMAIN Players \ {ID[d] : d \in full} |-> Players[i]]
    /\ lastEvent' = [kind |-> "broadcast", client |-> c, live |-> c \in clients,
                     evicted |-> {d \in clients : d \notin clients'}]
    /\ rpPc' = [rpPc EXCEPT ![c] = "read"]
    /\ pos' = [pos EXCEPT ![c] = NoPos]
    /\ stateMsg' = [stateMsg EXCEPT ![c] = NoMsg]
    /\ liveAtPosition' = [liveAtPosition EXCEPT ![c] = FALSE]
    /\ UNCHANGED <<hsVars, hubState, reg, stopClosed, frames, lastFrame, wpVars, connCloses>>
    /\ lastState' = [d \in Conns |->
            IF d \in clients /\ Len(send[d]) < sendBufferSize THEN snapOf[c]
            ELSE lastState[d]]
    /\ snapOf' = [snapOf EXCEPT ![c] = 0]
    /\ UNCHANGED snapshots
    /\ UNCHANGED <<numbering, netVars, codecVars>>

\* HubStop that closes the queues but leaves the entities in the store
HubStopKeepsStore ==
    /\ hubState = "running"
    /\ stopClosed
    /\ sendCloses' = [c \in Conns |-> IF c \in clients THEN sendCloses[c] + 1 ELSE sendCloses[c]]
    /\ clients' = {}
    /\ hubState' = "stopped"
    /\ lastEvent' = [kind |-> "stop", client |-> 0, live |-> FALSE, evicted |-> {}]
    /\ UNCHANGED <<hsVars, Players, send, broadcasts, sendSeq, reg, stopClosed, rpVars,
                   wpVars, connCloses>>
    /\ UNCHANGED <<numbering, snapVars, netVars, codecVars>>

\* case <-h.stop
HubStop ==
    /\ hubState = "running"
    /\ stopClosed
    /\ sendCloses' = [c \in Conns |-> IF c \in clients THEN sendCloses[c] + 1 ELSE sendCloses[c]]
    /\ clients' = {}
    /\ Players' = [i \in DOMAIN Players \ {ID[c] : c \in clients} |-> Players[i]]
    /\ hubState' = "stopped"
    /\ lastEvent' = [kind |-> "stop", client |-> 0, live |-> FALSE, evicted |-> {}]
    /\ UNCHANGED <<hsVars, send, broadcasts, sendSeq, reg, stopClosed, rpVars, wpVars,
                   connCloses>>
    /\ UNCHANGED <<numbering, snapVars, netVars, codecVars>>

\* Hub.Stop, called once by Server.Shutdown
Stop ==
    /\ ~stopClosed
    /\ stopClosed' = TRUE
    /\ UNCHANGED <<hsVars, hubVars, rpVars, wpVars, connCloses>>
    /\ UNCHANGED <<numbering, snapVars, netVars, codecVars>>

\* ----- Client.ReadPump (client.go) -----

\* What conn.Read returns: a message type and bytes.  The bytes are the
\* envelope they spell, or BadEnvelope when json.Unmarshal rejects them as an
\* Envelope; the data of an envelope is the payload it spells, or BadData when
\* json.Unmarshal rejects it as a PositionData.
MessageText == "text"
MessageBinary == "binary"
BadEnvelope == [syntax |-> "}{"]
BadData == [syntax |-> "]["]

\* a kind the protocol does not define
MsgUnknown == "chat"

PositionData == [X : 1..MaxCoord, Y : 1..MaxCoord]

Frames ==
    {[msgType |-> MessageText, bytes |-> b] :
        b \in {BadEnvelope} \cup
              {Marshal(t, d) : t \in {MsgPosition, MsgUnknown},
                               d \in {BadData} \cup PositionData}}
    \cup {[msgType |-> MessageBinary, bytes |-> Marshal(MsgPosition, d)] :
            d \in PositionData}

\* protocol.Unmarshal
Unmarshal(b) ==
    IF b = BadEnvelope THEN [err |-> TRUE, env |-> NoMsg] ELSE [err |-> FALSE, env |-> b]

\* json.Unmarshal(env.Data, &pos)
UnmarshalPosition(data) ==
    IF data = BadData THEN [err |-> TRUE, pos |-> [X |-> 0, Y |-> 0]]
    ELSE [err |-> FALSE, pos |-> data]

\* the frames that get past every "continue" and the default case of ReadPump
IsPosition(f) ==
    /\ f.msgType = MessageText
    /\ ~Unmarshal(f.bytes).err
    /\ Unmarshal(f.bytes).env.type = MsgPosition
    /\ ~UnmarshalPosition(Unmarshal(f.bytes).env.data).err

\* a text frame with a well-formed Position{x, y}: c.hub.State.UpdatePosition
ReadPumpPosition(c) ==
    /\ rpPc[c] = "read"
    /\ connCloses[c] = 0
    /\ frames < MaxFrames
    /\ \E f \in Frames :
         /\ IsPosition(f)
         /\ LET p == UnmarshalPosition(Unmarshal(f.bytes).env.data).pos
            IN /\ Players' = UpdatePosition(Players, ID[c], p.X, p.Y)
               /\ pos' = [pos EXCEPT ![c] = <<p.X, p.Y>>]
         /\ lastFrame' = f
    /\ liveAtPosition' = [liveAtPosition EXCEPT ![c] = c \in clients]
    /\ rpPc' = [rpPc EXCEPT ![c] = "snapshot"]
    /\ frames' = frames + 1
    /\ UNCHANGED <<hsVars, clients, send, sendCloses, broadcasts, sendSeq, hubState, reg,
                   lastEvent, stopClosed, stateMsg, wpVars, connCloses>>
    /\ UNCHANGED <<numbering, snapVars, netVars, codecVars>>

\* ReadPumpDrop that takes a frame it cannot use for a read error and returns
ReadPumpDropFatal(c) ==
    /\ rpPc[c] = "read"
    /\ connCloses[c] = 0
    /\ frames < MaxFrames
    /\ \E f \in Frames : ~IsPosition(f) /\ lastFrame' = f
    /\ frames' = frames + 1
    /\ rpPc' = [rpPc EXCEPT ![c] = "unregister"]
    /\ UNCHANGED <<hsVars, hubVars, stopClosed, pos, stateMsg, liveAtPosition, wpVars,
                   connCloses>>
    /\ UNCHANGED <<numbering, snapVars, netVars, codecVars>>

\* any other frame (not text, no envelope, no PositionData, another kind):
\* logged, and the loop continues with the next read
ReadPumpDrop(c) ==
    /\ rpPc[c] = "read"
    /\ connCloses[c] = 0
    /\ frames < MaxFrames
    /\ \E f \in Frames : ~IsPosition(f) /\ lastFrame' = f
    /\ frames' = frames + 1
    /\ UNCHANGED <<hsVars, hubVars, stopClosed, rpPc, pos, stateMsg, liveAtPosition,
                   wpVars, connCloses>>
    /\ UNCHANGED <<numbering, snapVars, netVars, codecVars>>

\* stateMsg := c.hub.buildStateMessage()
ReadPumpBuild(c) ==
    /\ rpPc[c] = "snapshot"
    /\ stateMsg' = [stateMsg EXCEPT ![c] = buildStateMessage(Players)]
    /\ rpPc' = [rpPc EXCEPT ![c] = "broadcast"]
    /\ UNCHANGED <<hsVars, hubVars, stopClosed, pos, frames, lastFrame, liveAtPosition, wpVars,
                   connCloses>>
    /\ snapshots' = Number(snapshots + 1)
    /\ snapOf' = [snapOf EXCEPT ![c] = Number(snapshots + 1)]
    /\ UNCHANGED lastState
    /\ UNCHANGED <<numbering, netVars, codecVars>>

\* conn.Read fails (remote close, network error, or the connection was closed
\* locally): return, running the deferred exit sequence
ReadPumpError(c) ==
    /\ rpPc[c] = "read"
    /\ rpPc' = [rpPc EXCEPT ![c] = "unregister"]
    /\ UNCHANGED <<hsVars, hubVars, stopClosed, pos, stateMsg, frames, lastFrame, liveAtPosition,
                   wpVars, connCloses>>
    /\ UNCHANGED <<numbering, snapVars, netVars, codecVars>>

\* the deferred c.conn.Close after the unregister send went through
ReadPumpClose(c) ==
    /\ rpPc[c] = "close"
    /\ connCloses' = [connCloses EXCEPT ![c] = @ + 1]
    /\ rpPc' = [rpPc EXCEPT ![c] = "done"]
    /\ UNCHANGED <<hsVars, hubVars, stopClosed, pos, stateMsg, frames, lastFrame, liveAtPosition,
                   wpVars>>
    /\ UNCHANGED <<numbering, snapVars, netVars, codecVars>>

\* ----- Game.processMessages (game.go), applied by the peer of a session -----

processMessage(players, env) ==
    IF env.type = MsgState
    THEN LET list == env.data.players
         IN [id \in {p.ID : p \in list} |-> CHOOSE p \in list : p.ID = id]
    ELSE IF env.type = MsgJoin
    THEN [id \in DOMAIN players \cup {env.data.ID} |->
            IF id = env.data.ID
            THEN [ID |-> env.data.ID, X |-> env.data.X, Y |-> env.data.Y,
                  Color |-> env.data.Color]
            ELSE players[id]]
    ELSE IF env.type = MsgLeave
    THEN [id \in DOMAIN players \ {env.data.ID} |-> players[id]]
    ELSE players

\* ----- Client.WritePump (client.go) -----

\* WritePumpWrite that takes the newest message of the queue, not the oldest
WritePumpWriteNewest(c) ==
    /\ wpPc[c] = "run"
    /\ send[c] # <<>>
    /\ send' = [send EXCEPT ![c] = SubSeq(@, 1, Len(@) - 1)]
    /\ sendSeq' = [sendSeq EXCEPT ![c] = SubSeq(@, 1, Len(@) - 1)]
    /\ \/ /\ connCloses[c] = 0
          /\ written' = [written EXCEPT ![c] =
                IF sendSeq[c][Len(sendSeq[c])] # 0 THEN Append(@, sendSeq[c][Len(sendSeq[c])]) ELSE @]
          /\ gplayers' = [gplayers EXCEPT ![c] = processMessage(@, send[c][Len(send[c])])]
          /\ leaveApplied' = [leaveApplied EXCEPT ![c] =
                IF send[c][Len(send[c])].type = MsgLeave THEN @ \cup {send[c][Len(send[c])].data.ID}
                ELSE @]
          /\ UNCHANGED <<wpPc, connCloses>>
       \/ /\ wpPc' = [wpPc EXCEPT ![c] = "done"]
          /\ connCloses' = [connCloses EXCEPT ![c] = @ + 1]
          /\ UNCHANGED <<gplayers, leaveApplied, written>>
    /\ UNCHANGED <<hsVars, clients, Players, sendCloses, broadcasts, hubState, reg,
                   lastEvent, stopClosed, rpVars>>
    /\ UNCHANGED <<numbering, snapVars, netVars, codecVars>>

\* one iteration of "for message := range c.send": receive the head of the queue
\* and write it; the peer applies a frame that was written
WritePumpWrite(c) ==
    /\ wpPc[c] = "run"
    /\ send[c] # <<>>
    /\ send' = [send EXCEPT ![c] = Tail(@)]
    /\ sendSeq' = [sendSeq EXCEPT ![c] = Tail(@)]
    /\ \/ /\ connCloses[c] = 0
          /\ written' = [written EXCEPT ![c] =
                IF Head(sendSeq[c]) # 0 THEN Append(@, Head(sendSeq[c])) ELSE @]
          /\ gplayers' = [gplayers EXCEPT ![c] = processMessage(@, Head(send[c]))]
          /\ leaveApplied' = [leaveApplied EXCEPT ![c] =
                IF Head(send[c]).type = MsgLeave THEN @ \cup {Head(send[c]).data.ID}
                ELSE @]
          /\ UNCHANGED <<wpPc, connCloses>>
       \/ /\ wpPc' = [wpPc EXCEPT ![c] = "done"]
          /\ connCloses' = [connCloses EXCEPT ![c] = @ + 1]
          /\ UNCHANGED <<gplayers, leaveApplied, written>>
    /\ UNCHANGED <<hsVars, clients, Players, sendCloses, broadcasts, hubState, reg,
                   lastEvent, stopClosed, rpVars>>
    /\ UNCHANGED <<numbering, snapVars, netVars, codecVars>>

\* WritePumpExit without the deferred conn.Close
WritePumpExitKeepsConn(c) ==
    /\ wpPc[c] = "run"
    /\ send[c] = <<>>
    /\ sendCloses[c] > 0
    /\ wpPc' = [wpPc EXCEPT ![c] = "done"]
    /\ UNCHANGED <<hsVars, hubVars, stopClosed, rpVars, gplayers, leaveApplied, written,
                   connCloses>>
    /\ UNCHANGED <<numbering, snapVars, netVars, codecVars>>

\* the range loop ends: the queue is closed and drained; the deferred conn.Close
WritePumpExit(c) ==
    /\ wpPc[c] = "run"
    /\ send[c] = <<>>
    /\ sendCloses[c] > 0
    /\ wpPc' = [wpPc EXCEPT ![c] = "done"]
    /\ connCloses' = [connCloses EXCEPT ![c] = @ + 1]
    /\ UNCHANGED <<hsVars, hubVars, stopClosed, rpVars, gplayers, leaveApplied, written>>
    /\ UNCHANGED <<numbering, snapVars, netVars, codecVars>>

Next ==
    \/ \E c \in Conns : Accept(c)
    \/ \E c \in Conns : CounterLoad(c)
    \/ \E c \in Conns : CounterStore(c)
    \/ \E c \in Conns : NewClient(c)
    \/ \E c \in Conns : StartPumps(c)
    \/ \E c \in Conns : HubRegister(c)
    \/ HubRegisterState
    \/ \E c \in Conns : HubUnregister(c)
    \/ \E c \in Conns : HubBroadcast(c)
    \/ HubStop
    \/ Stop
    \/ \E c \in Conns : ReadPumpPosition(c)
    \/ \E c \in Conns : ReadPumpDrop(c)
    \/ \E c \in Conns : ReadPumpBuild(c)
    \/ \E c \in Conns : ReadPumpError(c)
    \/ \E c \in Conns : ReadPumpClose(c)
    \/ \E c \in Conns : WritePumpWrite(c)
    \/ \E c \in Conns : WritePumpExit(c)

Spec == Init /\ [][Next]_vars

\* ----- the sessions once their handshakes have taken their ids -----

\* NumConns handshakes have run nextPlayerID one after the other (no race, so
\* the ids are distinct) and are about to hand their sessions to the hub.
Registering(num) ==
    /\ playerCounter = NumConns
    /\ ID = [c \in Conns |-> FormatID(c)]
    /\ hsPc = [c \in Conns |-> "register"]
    /\ hsReg = [c \in Conns |-> 0]
    /\ clients = {}
    /\ Players = EmptyState
    /\ send = [c \in Conns |-> <<>>]
    /\ sendCloses = [c \in Conns |-> 0]
    /\ numbering = num
    /\ broadcasts = 0
    /\ sendSeq = [c \in Conns |-> <<>>]
    /\ written = [c \in Conns |-> <<>>]
    /\ hubState = "running"
    /\ reg = NoReg
    /\ stopClosed = FALSE
    /\ rpPc = [c \in Conns |-> "idle"]
    /\ pos = [c \in Conns |-> NoPos]
    /\ stateMsg = [c \in Conns |-> NoMsg]
    /\ wpPc = [c \in Conns |-> "idle"]
    /\ connCloses = [c \in Conns |-> 0]
    /\ gplayers = [c \in Conns |-> EmptyState]
    /\ leaveApplied = [c \in Conns |-> {}]
    /\ frames = 0
    /\ lastFrame = NoFrame
    /\ lastEvent = NoEvent
    /\ liveAtPosition = [c \in Conns |-> FALSE]
    /\ snapshots = 0
    /\ snapOf = [c \in Conns |-> 0]
    /\ lastState = [c \in Conns |-> 0]
    /\ connectNetwork
    /\ codecIdle

InitRegistering == Registering(FALSE)

\* the hub loop, the pumps and Server.Shutdown, without the handshakes; the
\* peers send Position frames only (a frame that is dropped changes nothing)
NextRegistered ==
    \/ \E c \in Conns : StartPumps(c)
    \/ \E c \in Conns : HubRegister(c)
    \/ HubRegisterState
    \/ \E c \in Conns : HubUnregister(c)
    \/ \E c \in Conns : HubBroadcast(c)
    \/ HubStop
    \/ Stop
    \/ \E c \in Conns : ReadPumpPosition(c)
    \/ \E c \in Conns : ReadPumpBuild(c)
    \/ \E c \in Conns : ReadPumpError(c)
    \/ \E c \in Conns : ReadPumpClose(c)
    \/ \E c \in Conns : WritePumpWrite(c)
    \/ \E c \in Conns : WritePumpExit(c)

\* Scheduling: every goroutine that can take a step eventually takes it.  The
\* hub's select picks among its ready cases at random, so a case that stays
\* ready is eventually taken; a read fails once the connection is closed; a
\* write returns within writeWait.  Nothing makes a healthy connection fail or
\* a peer send a frame, and nothing makes Server.Shutdown be called.
Fairness ==
    /\ \A c \in Conns :
        /\ WF_vars(StartPumps(c))
        /\ WF_vars(HubRegister(c))
        /\ WF_vars(HubUnregister(c))
        /\ WF_vars(HubBroadcast(c))
        /\ WF_vars(ReadPumpBuild(c))
        /\ WF_vars(ReadPumpError(c) /\ connCloses[c] > 0)
        /\ WF_vars(ReadPumpClose(c))
        /\ WF_vars(WritePumpWrite(c))
        /\ WF_vars(WritePumpExit(c))
    /\ WF_vars(HubRegisterState)
    /\ WF_vars(HubStop)

FairSpec == InitRegistering /\ [][NextRegistered]_vars /\ Fairness

\* ----- one session served, the next one about to register -----

\* Session 1 went through Hub.Run's register case alone, its pumps run, its
\* WritePump wrote the Welcome and the State of that registration to the peer,
\* and its queue is empty; the other sessions are about to be handed to the
\* hub.  (Spec reaches this state from InitRegistering in seven steps.)
InitServed ==
    /\ playerCounter = NumConns
    /\ ID = [c \in Conns |-> FormatID(c)]
    /\ hsPc = [c \in Conns |-> IF c = 1 THEN "done" ELSE "register"]
    /\ hsReg = [c \in Conns |-> 0]
    /\ clients = {1}
    /\ \E col \in playerColors, startX \in StartXs, startY \in StartYs :
        Players = AddPlayer(EmptyState, FormatID(1), startX, startY, col)
    /\ send = [c \in Conns |-> <<>>]
    /\ sendCloses = [c \in Conns |-> 0]
    /\ numbering = FALSE
    /\ broadcasts = 0
    /\ sendSeq = [c \in Conns |-> <<>>]
    /\ written = [c \in Conns |-> <<>>]
    /\ hubState = "running"
    /\ reg = NoReg
    /\ stopClosed = FALSE
    /\ rpPc = [c \in Conns |-> IF c = 1 THEN "read" ELSE "idle"]
    /\ pos = [c \in Conns |-> NoPos]
    /\ stateMsg = [c \in Conns |-> NoMsg]
    /\ wpPc = [c \in Conns |-> IF c = 1 THEN "run" ELSE "idle"]
    /\ connCloses = [c \in Conns |-> 0]
    /\ gplayers = [c \in Conns |->
            IF c = 1 THEN processMessage(EmptyState, buildStateMessage(Players))
            ELSE EmptyState]
    /\ leaveApplied = [c \in Conns |-> {}]
    /\ frames = 0
    /\ lastFrame = NoFrame
    /\ lastEvent = [kind |-> "register", client |-> 1, live |-> FALSE, evicted |-> {}]
    /\ liveAtPosition = [c \in Conns |-> FALSE]
    /\ snapshots = 0
    /\ snapOf = [c \in Conns |-> 0]
    /\ lastState = [c \in Conns |-> 0]
    /\ connectNetwork
    /\ codecIdle

ServedSpec == InitServed /\ [][NextRegistered]_vars /\ Fairness

\* the same sessions, in behaviours that number what Hub.Run broadcasts and
\* the snapshots buildStateMessage takes
InitNumbered == Registering(TRUE)

OrderSpec == InitNumbered /\ [][NextRegistered]_vars

\* ----- Network.connectLoop, readLoop and Close (internal/client/network.go) -----

Min(a, b) == IF a < b THEN a ELSE b

\* the stop flag is read under the mutex at the top of every iteration
ConnectLoopCheck ==
    /\ nPc = "check"
    /\ nPc' = IF stopReconnect THEN "returned" ELSE "ctx"
    /\ UNCHANGED <<delay, stopReconnect, cancel, ctxCancelled, conn, connected, sock,
                   dials, fails, lastSleep, readExit, closeCalls>>
    /\ UNCHANGED <<playerID, playerColor, inboxVars, srvVars, codecVars>>

\* context.WithCancel, and n.cancel = cancel under the mutex.  Until here
\* n.cancel is nil or the function of the previous iteration's context, which
\* that iteration has cancelled already.
ConnectLoopInstall ==
    /\ nPc = "ctx"
    /\ cancel' = "set"
    /\ ctxCancelled' = FALSE
    /\ nPc' = "dial"
    /\ UNCHANGED <<delay, stopReconnect, conn, connected, sock, dials, fails, lastSleep,
                   readExit, closeCalls>>
    /\ UNCHANGED <<playerID, playerColor, inboxVars, srvVars, codecVars>>

\* websocket.Dial(ctx, ...) is called
DialStart ==
    /\ nPc = "dial"
    /\ dials < MaxDials
    /\ dials' = dials + 1
    /\ nPc' = "dialing"
    /\ UNCHANGED <<delay, stopReconnect, cancel, ctxCancelled, conn, connected, sock,
                   fails, lastSleep, readExit, closeCalls>>
    /\ UNCHANGED <<playerID, playerColor, inboxVars, srvVars, codecVars>>

\* Dial returns an error (it can at any time, and must once ctx is cancelled):
\* cancel()
DialFail ==
    /\ nPc = "dialing"
    /\ ctxCancelled' = TRUE
    /\ fails' = fails + 1
    /\ nPc' = "sleep"
    /\ UNCHANGED <<delay, stopReconnect, cancel, conn, connected, sock, dials, lastSleep,
                   readExit, closeCalls>>
    /\ UNCHANGED <<playerID, playerColor, inboxVars, srvVars, codecVars>>

\* Dial returns a connection
DialOK ==
    /\ nPc = "dialing"
    /\ ~ctxCancelled
    /\ sock' = "open"
    /\ nPc' = "connect"
    /\ UNCHANGED <<delay, stopReconnect, cancel, ctxCancelled, conn, connected, dials,
                   fails, lastSleep, readExit, closeCalls>>
    /\ UNCHANGED <<playerID, playerColor, inboxVars, srvVars, codecVars>>

\* Sleep whose doubling has no cap
SleepUncapped ==
    /\ nPc = "sleep"
    /\ lastSleep' = delay
    /\ readExit' = FALSE
    /\ delay' = delay * 2
    /\ nPc' = "check"
    /\ UNCHANGED <<stopReconnect, cancel, ctxCancelled, conn, connected, sock, dials,
                   fails, closeCalls>>
    /\ UNCHANGED <<playerID, playerColor, inboxVars, srvVars, codecVars>>

\* time.Sleep(delay), then the delay is doubled up to reconnectMax
Sleep ==
    /\ nPc = "sleep"
    /\ lastSleep' = delay
    /\ readExit' = FALSE
    /\ delay' = IF delay < reconnectMax THEN Min(delay * 2, reconnectMax) ELSE delay
    /\ nPc' = "check"
    /\ UNCHANGED <<stopReconnect, cancel, ctxCancelled, conn, connected, sock, dials,
                   fails, closeCalls>>
    /\ UNCHANGED <<playerID, playerColor, inboxVars, srvVars, codecVars>>

\* n.conn = conn; n.connected = true; n.playerID = ""; n.playerColor = Color{}
\* under the mutex; delay = reconnectInitial
Connected ==
    /\ nPc = "connect"
    /\ conn' = "set"
    /\ connected' = TRUE
    /\ playerID' = NoID
    /\ playerColor' = 0
    /\ delay' = reconnectInitial
    /\ fails' = 0
    /\ nPc' = "read"
    /\ UNCHANGED <<stopReconnect, cancel, ctxCancelled, sock, dials, lastSleep, readExit,
                   closeCalls>>
    /\ UNCHANGED <<inboxVars, srvVars, codecVars>>

\* readLoop returns: conn.Read failed (the peer closed or the network broke, at
\* any time; the connection was closed or ctx cancelled by Close)
ReadLoopExit ==
    /\ nPc = "read"
    /\ readExit' = TRUE
    /\ nPc' = "cleanup"
    /\ UNCHANGED <<delay, stopReconnect, cancel, ctxCancelled, conn, connected, sock,
                   dials, fails, lastSleep, closeCalls>>
    /\ UNCHANGED <<playerID, playerColor, inboxVars, srvVars, codecVars>>

\* n.connected = false; n.conn = nil under the mutex
ConnectLoopCleanup ==
    /\ nPc = "cleanup"
    /\ connected' = FALSE
    /\ conn' = "nil"
    /\ nPc' = "close"
    /\ UNCHANGED <<delay, stopReconnect, cancel, ctxCancelled, sock, dials, fails,
                   lastSleep, readExit, closeCalls>>
    /\ UNCHANGED <<playerID, playerColor, inboxVars, srvVars, codecVars>>

\* conn.Close; cancel(); and the loop goes round
ConnectLoopClose ==
    /\ nPc = "close"
    /\ sock' = "closed"
    /\ ctxCancelled' = TRUE
    /\ nPc' = "check"
    /\ UNCHANGED <<delay, stopReconnect, cancel, conn, connected, dials, fails, lastSleep,
                   readExit, closeCalls>>
    /\ UNCHANGED <<playerID, playerColor, inboxVars, srvVars, codecVars>>

\* What conn.Read returns to readLoop: the frames a server writes, and frames
\* no server of this protocol writes (a binary frame, bytes that are not an
\* Envelope, a Welcome whose data is not a WelcomeData).
WelcomeData == [ID : {FormatID(1)}, Color : playerColors]

ServerFrames ==
    {[msgType |-> MessageText, bytes |-> b] :
        b \in {BadEnvelope}
              \cup {Marshal(MsgWelcome, d) : d \in {BadData} \cup WelcomeData}
              \cup {Marshal(MsgState, [players |-> {}])}}
    \cup {[msgType |-> MessageBinary, bytes |-> Marshal(MsgState, [players |-> {}])]}

\* json.Unmarshal(env.Data, &w)
UnmarshalWelcome(data) ==
    IF data = BadData THEN [err |-> TRUE, w |-> [ID |-> NoID, Color |-> 0]]
    ELSE [err |-> FALSE, w |-> data]

\* the select of readLoop that sends env on a full channel keeps the newest
\* envelope and drops the oldest
ReadLoopFrameDropOldest ==
    /\ nPc = "read"
    /\ sock = "open"
    /\ ~ctxCancelled
    /\ arrivals < MaxArrivals
    /\ arrivals' = arrivals + 1
    /\ \E f \in ServerFrames :
         LET u == Unmarshal(f.bytes)
             env == [type |-> u.env.type, data |-> u.env.data, seq |-> arrivals + 1]
         IN IF f.msgType # MessageText \/ u.err
            THEN /\ lastRead' = [seq |-> arrivals + 1, outcome |-> "skipped"]
                 /\ UNCHANGED <<messages, accepted, playerID, playerColor>>
            ELSE /\ IF env.type = MsgWelcome /\ ~UnmarshalWelcome(env.data).err
                    THEN /\ playerID' = UnmarshalWelcome(env.data).w.ID
                         /\ playerColor' = UnmarshalWelcome(env.data).w.Color
                    ELSE UNCHANGED <<playerID, playerColor>>
                 /\ IF Len(messages) < messagesCap
                    THEN /\ messages' = Append(messages, env)
                         /\ lastRead' = [seq |-> arrivals + 1, outcome |-> "queued"]
                    ELSE /\ messages' = Append(Tail(messages), env)
                         /\ lastRead' = [seq |-> arrivals + 1, outcome |-> "dropped"]
                 /\ accepted' = Append(accepted, env)
    /\ UNCHANGED <<loopVars, rmPc, msgs, delivered>>
    /\ UNCHANGED <<srvVars, codecVars>>

\* One iteration of readLoop whose conn.Read returns a frame: a frame that is
\* not text, or not an Envelope, is skipped; a Welcome whose data decodes sets
\* playerID and playerColor under the mutex; the envelope goes into
\* n.messages if the channel has room and is dropped otherwise.  The fields
\* the iteration writes are read by no other step of the model, so the
\* iteration is one action.  seq is the place of the frame among the frames
\* read; it tells two equal envelopes apart.
ReadLoopFrame ==
    /\ nPc = "read"
    /\ sock = "open"
    /\ ~ctxCancelled
    /\ arrivals < MaxArrivals
    /\ arrivals' = arrivals + 1
    /\ \E f \in ServerFrames :
         LET u == Unmarshal(f.bytes)
             env == [type |-> u.env.type, data |-> u.env.data, seq |-> arrivals + 1]
         IN IF f.msgType # MessageText \/ u.err
            THEN /\ lastRead' = [seq |-> arrivals + 1, outcome |-> "skipped"]
                 /\ UNCHANGED <<messages, accepted, playerID, playerColor>>
            ELSE /\ IF env.type = MsgWelcome /\ ~UnmarshalWelcome(env.data).err
                    THEN /\ playerID' = UnmarshalWelcome(env.data).w.ID
                         /\ playerColor' = UnmarshalWelcome(env.data).w.Color
                    ELSE UNCHANGED <<playerID, playerColor>>
                 /\ IF Len(messages) < messagesCap
                    THEN /\ messages' = Append(messages, env)
                         /\ accepted' = Append(accepted, env)
                         /\ lastRead' = [seq |-> arrivals + 1, outcome |-> "queued"]
                    ELSE /\ lastRead' = [seq |-> arrivals + 1, outcome |-> "dropped"]
                         /\ UNCHANGED <<messages, accepted>>
    /\ UNCHANGED <<loopVars, rmPc, msgs, delivered>>
    /\ UNCHANGED <<srvVars, codecVars>>

\* Network.ReceiveMessages, called by the game's Update: the case that
\* receives a message from n.messages and appends it to msgs
ReceiveTake ==
    /\ messages # <<>>
    /\ msgs' = Append(IF rmPc = "idle" THEN <<>> ELSE msgs, Head(messages))
    /\ messages' = Tail(messages)
    /\ rmPc' = "drain"
    /\ UNCHANGED <<loopVars, playerID, playerColor, arrivals, lastRead, accepted, delivered>>
    /\ UNCHANGED <<srvVars, codecVars>>

\* ReceiveMessages: the default case, return msgs
ReceiveReturn ==
    /\ messages = <<>>
    /\ delivered' = delivered \o (IF rmPc = "idle" THEN <<>> ELSE msgs)
    /\ msgs' = <<>>
    /\ rmPc' = "idle"
    /\ UNCHANGED <<loopVars, playerID, playerColor, messages, arrivals, lastRead, accepted>>
    /\ UNCHANGED <<srvVars, codecVars>>

\* Network.Close, the whole body under the mutex
Close ==
    /\ closeCalls < MaxCloses
    /\ stopReconnect' = TRUE
    /\ ctxCancelled' = IF cancel # "nil" THEN TRUE ELSE ctxCancelled
    /\ sock' = IF conn # "nil" THEN "closed" ELSE sock
    /\ conn' = "nil"
    /\ connected' = FALSE
    /\ closeCalls' = closeCalls + 1
    /\ UNCHANGED <<nPc, delay, cancel, dials, fails, lastSleep, readExit>>
    /\ UNCHANGED <<playerID, playerColor, inboxVars, srvVars, codecVars>>

NetNext ==
    \/ ConnectLoopCheck
    \/ ConnectLoopInstall
    \/ DialStart
    \/ DialFail
    \/ DialOK
    \/ Sleep
    \/ Connected
    \/ ReadLoopExit
    \/ ConnectLoopCleanup
    \/ ConnectLoopClose
    \/ Close

NetSpec == Init /\ [][NetNext]_vars

\* ----- readLoop on an open connection, and ReceiveMessages -----

\* the first dial has succeeded and connectLoop has entered readLoop
InitReading ==
    /\ NewServer
    /\ codecIdle
    /\ nPc = "read"
    /\ delay = reconnectInitial
    /\ stopReconnect = FALSE
    /\ cancel = "set"
    /\ ctxCancelled = FALSE
    /\ conn = "set"
    /\ connected = TRUE
    /\ sock = "open"
    /\ dials = 1
    /\ fails = 0
    /\ lastSleep = 0
    /\ readExit = FALSE
    /\ closeCalls = 0
    /\ messages = <<>>
    /\ playerID = NoID
    /\ playerColor = 0
    /\ arrivals = 0
    /\ lastRead = [seq |-> 0, outcome |-> "none"]
    /\ accepted = <<>>
    /\ rmPc = "idle"
    /\ msgs = <<>>
    /\ delivered = <<>>

\* one run of readLoop, the game's calls of ReceiveMessages, and Close
InboxNext ==
    \/ ReadLoopFrame
    \/ ReadLoopExit
    \/ ReceiveTake
    \/ ReceiveReturn
    \/ Close

InboxSpec == InitReading /\ [][InboxNext]_vars

\* ----- a message through Marshal and Unmarshal, step by step -----

\* data, err := protocol.Marshal(kind, payload)
CodecMarshal ==
    /\ codecPc = "marshal"
    /\ LET m == MarshalBytes(codecIn.kind, codecIn.payload)
       IN /\ codecBytes' = m.b
          /\ codecPc' = IF m.err THEN "marshal error" ELSE "unmarshal"
    /\ UNCHANGED <<codecIn, codecEnv, codecOut>>
    /\ UNCHANGED <<srvVars, netVars>>

\* env, err := protocol.Unmarshal(data)
CodecUnmarshal ==
    /\ codecPc = "unmarshal"
    /\ LET e == UnmarshalBytes(codecBytes)
       IN /\ codecEnv' = e.env
          /\ codecPc' = IF e.err THEN "unmarshal error" ELSE "decode"
    /\ UNCHANGED <<codecIn, codecBytes, codecOut>>
    /\ UNCHANGED <<srvVars, netVars>>

\* switch env.Type; json.Unmarshal(env.Data, &payload)
CodecDecode ==
    /\ codecPc = "decode"
    /\ \E kind \in {MsgWelcome, MsgJoin, MsgLeave, MsgPosition, MsgState} :
         /\ codecEnv.Type = <<kind>>
         /\ codecOut' = jsonUnmarshal(kind, codecEnv.Data)
    /\ codecPc' = "done"
    /\ UNCHANGED <<codecIn, codecBytes, codecEnv>>
    /\ UNCHANGED <<srvVars, netVars>>

CodecNext ==
    \/ CodecMarshal
    \/ CodecUnmarshal
    \/ CodecDecode

\* a message of any kind with any payload is handed to Marshal
InitCodec ==
    /\ NewServer
    /\ connectNetwork
    /\ codecPc = "marshal"
    /\ codecIn \in Messages
    /\ codecBytes = <<>>
    /\ codecEnv = NoEnvelope
    /\ codecOut = [err |-> FALSE, v |-> <<>>]

CodecSpec == InitCodec /\ [][CodecNext]_vars

\* ----- properties -----

Assigned == {c \in Conns : ID[c] # NoID}

\* C1: after every event of Hub.Run (and every step of the pumps in between),
\* the ids of the sessions in the live set are exactly the entity ids of the store.
C1_LiveSetEqualsStore == {ID[c] : c \in clients} = DOMAIN Players

\* C9: no two sessions are ever assigned the same id, whatever the interleaving
\* of the handshakes that call nextPlayerID.
C9_UniqueIds == \A c, d \in Assigned : c # d => ID[c] # ID[d]

\* the store invariant of C1 in the runs whose ids are distinct: it holds there,
\* so C1 fails through duplicate ids alone
LiveSetEqualsStoreIfUnique == C9_UniqueIds => C1_LiveSetEqualsStore

\* the steps in which Hub.Run takes an event from session c
RegisterStep(c) == hsPc[c] = "register" /\ hsPc'[c] = "spawn"
UnregisterStep(c) == rpPc[c] = "unregister" /\ rpPc'[c] = "close"
BroadcastStep(c) == rpPc[c] = "broadcast" /\ rpPc'[c] = "read"

\* the step that ends the register case of session c, and the steps other
\* goroutines take while the hub is inside it
RegisterStateStep(c) == hubState = "register" /\ reg.client = c /\ hubState' = "running"
InsideRegister(c) == hubState = "register" /\ reg.client = c /\ hubState' = "register"

Last(q) == q[Len(q)]

\* the messages a step appended to the queue of session d
Appended(d) == {send'[d][i] : i \in (Len(send[d]) + 1)..Len(send'[d])}

\* a step in which nothing is enqueued to session d: its queue stays as it is
\* or loses its head to the WritePump
NothingEnqueued(d) == send'[d] = send[d] \/ (send[d] # <<>> /\ send'[d] = Tail(send[d]))

\* C2: a Broadcast processed while exactly one live session's queue is at
\* capacity evicts exactly that session (out of the live set, queue closed,
\* entity out of the store) and appends the message to the queue of every
\* other live session, none of which is removed.
C2_BackpressureEvictsOnlyFull ==
    [][\A c \in Conns : BroadcastStep(c) =>
        LET full == {d \in clients : Len(send[d]) = sendBufferSize}
        IN Cardinality(full) = 1 =>
            /\ clients' = clients \ full
            /\ \A d \in full :
                /\ sendCloses'[d] = sendCloses[d] + 1
                /\ send'[d] = send[d]
                /\ ID[d] \notin DOMAIN Players'
            /\ \A d \in clients \ full :
                /\ send'[d] = Append(send[d], stateMsg[c])
                /\ sendCloses'[d] = sendCloses[d]]_vars

\* a broadcast has just evicted one session while another one got the State
C2_Witness ==
    /\ lastEvent.kind = "broadcast"
    /\ Cardinality(lastEvent.evicted) = 1
    /\ \E d \in clients : send[d] # <<>> /\ Last(send[d]).type = MsgState

\* C3: an Unregister for a session that is not in the live set changes neither
\* the live set nor the store nor any queue: no Leave is enqueued and no queue
\* is closed again.
C3_UnregisterIdempotent ==
    [][\A c \in Conns : (UnregisterStep(c) /\ c \notin clients) =>
        UNCHANGED <<clients, Players, send, sendCloses>>]_vars

\* the hub has just processed the Unregister of a session evicted before
C3_Witness ==
    /\ lastEvent.kind = "unregister"
    /\ ~lastEvent.live
    /\ sendCloses[lastEvent.client] = 1
    /\ clients # {}

RegisterState(c) == send'[c][Len(send[c]) + 1]

\* C5 as claimed: the State sent directly to a newly registered session lists
\* the entities the store held before the registration and not the new
\* session's own entity.
C5_StateExcludesNewSession ==
    [][\A c \in Conns : RegisterStateStep(c) =>
        /\ RegisterState(c).type = MsgState
        /\ {e.ID : e \in RegisterState(c).data.players} = DOMAIN Players \ {ID[c]}]_vars

\* C5 as amended: the State sent directly to a newly registered session is
\* built after its entity was stored.  It lists the store as it is when it is
\* built: the new session's own entity, with the colour of its Welcome, and
\* one entity for each other id that was in the store before the registration.
C5_StateIncludesNewSession ==
    [][\A c \in Conns :
        /\ RegisterStep(c) =>
             /\ DOMAIN Players' = DOMAIN Players \cup {ID[c]}
             /\ Players'[ID[c]].Color = reg'.Color
             /\ Players'[ID[c]].Color = send'[c][1].data.Color
        /\ InsideRegister(c) =>
             /\ DOMAIN Players' = DOMAIN Players
             /\ Players'[ID[c]].Color = Players[ID[c]].Color
        /\ RegisterStateStep(c) =>
             LET st == RegisterState(c)
                 own == {e \in st.data.players : e.ID = ID[c]}
             IN /\ st.type = MsgState
                /\ st.data.players = {PlayerInfo(i, Players[i]) : i \in DOMAIN Players}
                /\ Cardinality(st.data.players) = Cardinality(DOMAIN Players)
                /\ Cardinality(own) = 1
                /\ \A e \in own : e.Color = reg.Color]_vars

\* a session has just registered into a store that held another entity, and
\* its queue still holds the State that lists both
C5_Witness ==
    /\ lastEvent.kind = "register"
    /\ Len(send[lastEvent.client]) = 3
    /\ send[lastEvent.client][2].type = MsgState
    /\ Cardinality(send[lastEvent.client][2].data.players) = 2
    /\ \E e \in send[lastEvent.client][2].data.players : e.ID = ID[lastEvent.client]

\* C6: once the peer of a session has applied Leave{id}, its players view never
\* contains id again.
C6_LeaveIsFinal ==
    \A a \in Conns : \A id \in leaveApplied[a] : id \notin DOMAIN gplayers[a]

\* C7: the State that the inbound loop of a session, live when it applied
\* Position{x, y}, hands to the running hub lists that session's entity at
\* exactly (x, y), and the hub appends it to the queue of every live session
\* that has room.
C7_StateCarriesPosition ==
    [][\A c \in Conns : (BroadcastStep(c) /\ liveAtPosition[c]) =>
        /\ \E e \in stateMsg[c].data.players :
             e.ID = ID[c] /\ e.X = pos[c][1] /\ e.Y = pos[c][2]
        /\ \A d \in clients : Len(send[d]) < sendBufferSize =>
             send'[d] = Append(send[d], stateMsg[c])]_vars

\* C8 as claimed: every Register, every Unregister of a live session and every
\* position update makes the hub enqueue a State with the resulting store
\* contents to every live session.
C8_StateOnEveryEvent ==
    [][\A c \in Conns :
        /\ (RegisterStateStep(c) \/ (UnregisterStep(c) /\ c \in clients)) =>
             \A d \in clients' : \E m \in Appended(d) :
                /\ m.type = MsgState
                /\ \A i \in DOMAIN Players' : PlayerInfo(i, Players'[i]) \in m.data.players
        /\ BroadcastStep(c) =>
             \A d \in clients' : stateMsg[c] \in Appended(d)]_vars

\* C8 as amended: only a position update has a State enqueued to all sessions:
\* the State built after a Position is appended to the queue of every live
\* session that has room.  A Register enqueues one State, to the new session
\* alone, and an Unregister enqueues no State.
C8_StateOnPositionOnly ==
    [][\A c \in Conns :
        /\ RegisterStep(c) =>
             \A d \in Conns : \A m \in Appended(d) : m.type # MsgState
        /\ RegisterStateStep(c) =>
             /\ Cardinality({i \in (Len(send[c]) + 1)..Len(send'[c]) :
                                send'[c][i].type = MsgState}) = 1
             /\ \A d \in Conns \ {c} : \A m \in Appended(d) : m.type # MsgState
        /\ UnregisterStep(c) =>
             \A d \in Conns : \A m \in Appended(d) : m.type # MsgState
        /\ (rpPc[c] = "snapshot" /\ rpPc'[c] = "broadcast") =>
             stateMsg'[c] = buildStateMessage(Players)
        /\ BroadcastStep(c) =>
             /\ stateMsg[c].type = MsgState
             /\ \A d \in clients : Len(send[d]) < sendBufferSize =>
                  send'[d] = Append(send[d], stateMsg[c])]_vars

\* a live session has just been unregistered and a remaining one got the Leave
C8_Witness ==
    /\ lastEvent.kind = "unregister"
    /\ lastEvent.live
    /\ \E d \in clients :
         /\ send[d] # <<>>
         /\ Last(send[d]) = Marshal(MsgLeave, [ID |-> ID[lastEvent.client]])

\* C10: the Stop event closes the queue of every live session and leaves the
\* live set and the store empty; from then on the loop has returned: the hub
\* takes no register, unregister or broadcast, closes no queue and enqueues
\* nothing.
C10_StopIsTerminal ==
    [][/\ (hubState # "stopped" /\ hubState' = "stopped") =>
            /\ clients' = {}
            /\ DOMAIN Players' = {}
            /\ \A c \in clients : sendCloses'[c] = sendCloses[c] + 1
       /\ hubState = "stopped" =>
            /\ hubState' = "stopped"
            /\ UNCHANGED <<clients, Players, sendCloses>>
            /\ \A c \in Conns :
                 /\ ~RegisterStep(c) /\ ~RegisterStateStep(c)
                 /\ ~UnregisterStep(c) /\ ~BroadcastStep(c)
                 /\ NothingEnqueued(c)]_vars

\* the hub has stopped, having drained a session whose inbound loop is now
\* blocked handing over a State, while another handshake waits to register
C10_Witness ==
    /\ hubState = "stopped"
    /\ \E c \in Conns : sendCloses[c] = 1 /\ rpPc[c] = "broadcast"
    /\ \E d \in Conns : hsPc[d] = "register"

\* a step of the hub loop that ends an event: only these close queues
HubStep ==
    \/ \E c \in Conns : RegisterStateStep(c) \/ UnregisterStep(c) \/ BroadcastStep(c)
    \/ hubState # "stopped" /\ hubState' = "stopped"

\* C13: a queue is closed by a step of the hub loop only and at most once, and
\* the hub enqueues nothing to a queue it has closed.
C13_QueueClosedOnceByHub ==
    [][\A c \in Conns :
        /\ sendCloses'[c] <= 1
        /\ sendCloses'[c] # sendCloses[c] => HubStep
        /\ Appended(c) # {} => sendCloses[c] = 0]_vars

\* Stop has closed the queue of a live session after another session's queue
\* was closed earlier and that session's inbound loop has terminated
C13_Witness ==
    /\ lastEvent.kind = "stop"
    /\ \E c, d \in Conns :
         /\ c # d
         /\ sendCloses[c] = 1 /\ rpPc[c] = "done"
         /\ sendCloses[d] = 1 /\ rpPc[d] = "read"

\* C18: the hub loop is never blocked in an enqueue: whenever an event is ready
\* for it (a session waiting to register, unregister or broadcast) or it is
\* inside the register case, it can take its step at once, whatever the queues
\* hold; a full queue met by a broadcast is evicted, not waited for.
C18_HubNeverBlocks ==
    /\ hubState = "register" => ENABLED HubRegisterState
    /\ \A c \in Conns :
         hubState = "running" =>
            /\ hsPc[c] = "register" => ENABLED HubRegister(c)
            /\ rpPc[c] = "unregister" => ENABLED HubUnregister(c)
            /\ rpPc[c] = "broadcast" => ENABLED HubBroadcast(c)

\* the hub is inside the register case of one session while the queue of
\* another live session is full
C18_Witness ==
    /\ hubState = "register"
    /\ send[reg.client] # <<>>
    /\ \E d \in clients \ {reg.client} : Len(send[d]) = sendBufferSize

\* C20: a frame the inbound loop cannot use (not a text frame, bytes that are
\* no envelope, a Position whose payload is no PositionData, a kind the loop
\* does not handle) is dropped: the step that reads it changes neither the
\* store, the live set, any queue, the hub's position nor any pump's position,
\* builds no snapshot, and leaves its reader in the read position.
C20_BadFrameDropped ==
    [][(frames' # frames /\ ~IsPosition(lastFrame'))
        => /\ \E c \in Conns : rpPc[c] = "read" /\ connCloses[c] = 0
           /\ UNCHANGED <<Players, clients, send, sendCloses, hubState, reg, lastEvent,
                          rpPc, pos, stateMsg, wpVars, connCloses>>]_vars

\* a Position frame with a malformed payload was read while two sessions are
\* registered, one of them the reader, and the store holds their entities
C20_Witness ==
    /\ lastFrame = [msgType |-> MessageText, bytes |-> Marshal(MsgPosition, BadData)]
    /\ Cardinality(clients) = 2
    /\ Cardinality(DOMAIN Players) = 2
    /\ \E c \in clients : rpPc[c] = "read" /\ connCloses[c] = 0
    /\ \E c \in clients : send[c] # <<>>

\* ----- the order of the broadcast messages (OrderSpec) -----

Written(c) == {written[c][i] : i \in 1..Len(written[c])}

Place(w, n) == CHOOSE i \in 1..Len(w) : w[i] = n

\* C19: of two messages Hub.Run broadcast, m before n, that two sessions have
\* both written to their connections, each of the two WritePumps wrote m
\* before n.
C19_BroadcastOrderKept ==
    \A c, d \in Conns : \A m, n \in 1..broadcasts :
        (c # d /\ m < n /\ {m, n} \subseteq Written(c) /\ {m, n} \subseteq Written(d))
            => /\ Place(written[c], m) < Place(written[c], n)
               /\ Place(written[d], m) < Place(written[d], n)

\* two sessions have written the same two broadcast messages
C19_Witness ==
    \E c, d \in Conns : \E m, n \in 1..broadcasts :
        /\ c # d
        /\ m < n
        /\ {m, n} \subseteq Written(c)
        /\ {m, n} \subseteq Written(d)

\* ----- the client transport (NetSpec) -----

\* C14: the delay connectLoop sleeps after the k-th failed dial in a row (k
\* counted from the start or from the last successful dial) is
\* min(1s * 2^(k-1), 30s); in particular it is 1s for the first failure after
\* a successful connect.
C14_BackoffDelay ==
    [][(nPc = "sleep" /\ nPc' = "check")
        => lastSleep' = Min(reconnectInitial * 2^(fails - 1), reconnectMax)]_vars

\* after a successful dial, seven dials in a row have failed and the last sleep
\* was the capped one
C14_Witness ==
    /\ nPc = "check"
    /\ fails >= 7
    /\ dials > fails
    /\ lastSleep = reconnectMax

\* C15: connectLoop starts no dial after readLoop has returned without having
\* slept in between.
C15_BackoffAfterReadLoopExit ==
    [][(nPc = "dial" /\ nPc' = "dialing") => ~readExit]_vars

\* C16: connectLoop starts no dial once a call of Network.Close has returned.
C16_NoDialAfterClose ==
    [][(nPc = "dial" /\ nPc' = "dialing") => closeCalls = 0]_vars

\* Network.IsConnected: n.connected read under the mutex
IsConnected == connected

\* C24: once a call of Network.Close has returned, IsConnected() is false and
\* Network.conn is nil in every later state, whatever step connectLoop was at
\* when Close ran.
C24_ClosedStaysDisconnected == closeCalls > 0 => (~IsConnected /\ conn = "nil")

\* ----- the codec (CodecSpec) -----

\* the message came back as it went in
RoundTrips ==
    /\ codecEnv.Type = <<codecIn.kind>>
    /\ codecOut = [err |-> FALSE, v |-> codecIn.payload]

ValidString(s) == \A i \in 1..Len(s) : s[i] # BAD

ValidPlayer(p) == ValidString(p.ID) /\ p.X.class = "finite" /\ p.Y.class = "finite"

\* every string of the payload is valid UTF-8 and every float64 is finite
ValidPayload(m) ==
    CASE m.kind = MsgWelcome -> ValidString(m.payload.ID)
      [] m.kind = MsgJoin -> ValidPlayer(m.payload)
      [] m.kind = MsgLeave -> ValidString(m.payload.ID)
      [] m.kind = MsgPosition ->
            m.payload.X.class = "finite" /\ m.payload.Y.class = "finite"
      [] m.kind = MsgState ->
            \A i \in 1..Len(m.payload.Players) : ValidPlayer(m.payload.Players[i])
      [] OTHER -> TRUE

\* C17, as stated: for each of the five kinds and every payload of the kind,
\* Marshal returns bytes, Unmarshal returns an envelope of that kind from them,
\* and its data decodes to the payload.
C17_RoundTrip ==
    /\ codecPc \notin {"marshal error", "unmarshal error"}
    /\ codecPc = "done" => RoundTrips

\* C17, amended: the same for every payload whose strings are valid UTF-8 and
\* whose float64 fields are finite.
C17_RoundTripValid ==
    ValidPayload(codecIn)
        => /\ codecPc \notin {"marshal error", "unmarshal error"}
           /\ codecPc = "done" => RoundTrips

\* a State with two players, an id that needs escaping and a negative
\* coordinate has gone through Marshal and Unmarshal
C17_Witness ==
    /\ codecPc = "done"
    /\ codecIn.kind = MsgState
    /\ Len(codecIn.payload.Players) = 2
    /\ codecIn.payload.Players[1].ID = <<"\"">>
    /\ codecIn.payload.Players[2].X = Finite(0 - 1)
    /\ ValidPayload(codecIn)
    /\ RoundTrips

\* ----- termination of the pumps (FairSpec, ServedSpec) -----

\* C11: under fair scheduling, an inbound loop whose read has failed completes
\* its exit sequence (the unregister send, then conn.Close) and terminates,
\* whether or not the hub loop has already returned.
C11_ReadPumpExitCompletes ==
    \A c \in Conns : (rpPc[c] = "unregister") ~> (rpPc[c] = "done")

\* the handshake has handed the session to the hub (ServedSpec)
Registered(c) == hsPc[c] \in {"spawn", "done"}

\* the session is out of the live set, its queue and its connection are
\* closed, its WritePump has returned and the store holds no entity for it
Destroyed(c) ==
    /\ c \notin clients
    /\ sendCloses[c] >= 1
    /\ connCloses[c] >= 1
    /\ wpPc[c] = "done"
    /\ ID[c] \notin DOMAIN Players

\* C12: under fair scheduling, a registered session whose inbound loop had a
\* read failure, or whose outbound loop had a write failure, or whose hub has
\* processed Stop, is eventually destroyed.
C12_SessionEventuallyDestroyed ==
    \A c \in Conns :
        (Registered(c) /\ (rpPc[c] = "unregister" \/ wpPc[c] = "done"
                           \/ hubState = "stopped")) ~> Destroyed(c)

\* a session destroyed after a write failure: its WritePump returned while the
\* queue was still open, and the hub, still running, took the unregistration
C12_Witness ==
    \E c \in Conns :
        /\ Destroyed(c)
        /\ hubState = "running"
        /\ lastEvent.kind = "unregister" /\ lastEvent.client = c /\ lastEvent.live
        /\ send[c] # <<>>

\* ----- the client's inbound queue (InboxSpec) -----

InArrivalOrder(q) == \A i, j \in 1..Len(q) : i < j => q[i].seq < q[j].seq

\* C21: when readLoop takes a frame while Network.messages is full, the
\* envelope is discarded, the channel keeps its envelopes in their order and
\* readLoop goes on reading; and when ReceiveMessages returns, the channel is
\* empty and every envelope that was put into the channel has been returned,
\* in the order of arrival.
C21_DropNewestAndDrain ==
    [][/\ (arrivals' = arrivals + 1 /\ Len(messages) = messagesCap)
            => (messages' = messages /\ accepted' = accepted /\ nPc' = "read")
       /\ (rmPc = "drain" /\ rmPc' = "idle")
            => /\ messages' = <<>>
               /\ delivered' = delivered \o msgs
               /\ delivered' = accepted
               /\ InArrivalOrder(delivered')]_vars

\* an envelope was dropped on a full channel, and a later ReceiveMessages
\* returned the envelopes that filled it
C21_Witness ==
    /\ lastRead.outcome = "dropped"
    /\ rmPc = "idle"
    /\ messages = <<>>
    /\ Len(delivered) = messagesCap
    /\ lastRead.seq > delivered[Len(delivered)].seq

\* ----- removal from the live set (Spec) -----

\* C23: a step of the running hub that takes sessions out of the live set, on
\* an Unregister or by evicting on a full queue, appends a Leave with the id of
\* each of them to the queue of every session that is live after the step.
C23_LeaveOnEveryRemoval ==
    [][hubState' # "stopped" =>
        \A c \in clients \ clients' : \A d \in clients' :
            Marshal(MsgLeave, [ID |-> ID[c]]) \in Appended(d)]_vars

\* ----- the order of the State messages (OrderSpec) -----

\* C22: a State enqueued to a session is of a snapshot taken after the
\* snapshot of every State enqueued to that session before.
C22_StatesInSnapshotOrder ==
    [][\A d \in Conns :
        lastState'[d] # lastState[d] => lastState'[d] > lastState[d]]_vars

====
